---------------------------- MODULE Spec2Model ----------------------------
(***************************************************************************)
(* A model of the medsecure privacy-risk engine:                           *)
(*   nlp_risk.py          claim extraction, permission grouping, scoring   *)
(*   tracker_analysis.py  tracker list loading and domain classification   *)
(* Python strings are TLA+ strings; str methods are modelled by what they  *)
(* do, character by character.  Classifier scores are in hundredths.       *)
(***************************************************************************)
EXTENDS Integers, Sequences, FiniteSets, TLC

VARIABLES
    pc,               \* "idle": between calls; "done": a call has returned
    op,               \* the function the last call entered
    ZS_CLASSIFIER,    \* nlp_risk._ZS_CLASSIFIER: "None" or "pipeline"
    TRACKER_PATTERNS, \* tracker_analysis.TRACKER_PATTERNS
    permissions,      \* argument of the last call
    policy_text,      \* argument of the last call: <<>> is None, <<s>> is s
    domains,          \* argument of the last classify_domains call
    apk,              \* the archive at apk_path in the last extraction
    max_file_size,    \* argument of the last extract_domains_from_apk call
    result,           \* value the last call returned
    risk_points,      \* compute_privacy_risk's local after the clamp
    strategy,         \* which extractor produced the returned claims
    backend,          \* what the classifier backend did during the last call
    zs_backend,       \* the classifier backend installed in this process
    history,          \* the compute_privacy_risk calls so far, oldest first
    calls             \* the calls running concurrently, one per thread

vars == <<pc, op, ZS_CLASSIFIER, TRACKER_PATTERNS, permissions, policy_text,
          domains, apk, max_file_size, result, risk_points, strategy,
          backend, zs_backend, history, calls>>

---------------------------------------------------------------------------
(* Python str primitives *)

Char(s, i) == SubSeq(s, i, i)

Whitespace == {" ", "\t", "\n", "\r", "\f"}

\* s.strip(): leading, then trailing whitespace is dropped one character at a time
RECURSIVE lstrip(_)
lstrip(s) ==
    IF Len(s) > 0 /\ Char(s, 1) \in Whitespace
    THEN lstrip(SubSeq(s, 2, Len(s)))
    ELSE s

RECURSIVE rstrip(_)
rstrip(s) ==
    IF Len(s) > 0 /\ Char(s, Len(s)) \in Whitespace
    THEN rstrip(SubSeq(s, 1, Len(s) - 1))
    ELSE s

strip(s) == rstrip(lstrip(s))

UpperChars == "ABCDEFGHIJKLMNOPQRSTUVWXYZ"
LowerChars == "abcdefghijklmnopqrstuvwxyz"

LowerChar(c) ==
    IF \E i \in 1..Len(UpperChars) : Char(UpperChars, i) = c
    THEN Char(LowerChars, CHOOSE i \in 1..Len(UpperChars) : Char(UpperChars, i) = c)
    ELSE c

\* s.lower(), character by character (the halves keep the recursion shallow)
RECURSIVE lower(_)
lower(s) ==
    IF Len(s) = 0 THEN ""
    ELSE IF Len(s) = 1 THEN LowerChar(s)
    ELSE lower(SubSeq(s, 1, Len(s) \div 2))
         \o lower(SubSeq(s, Len(s) \div 2 + 1, Len(s)))

\* Python's `word in text`
contains(text, word) ==
    \E i \in 1..(Len(text) - Len(word) + 1) :
        SubSeq(text, i, i + Len(word) - 1) = word

startswith(s, p) ==
    Len(p) <= Len(s) /\ SubSeq(s, 1, Len(p)) = p

endswith(s, p) ==
    Len(p) <= Len(s) /\ SubSeq(s, Len(s) - Len(p) + 1, Len(s)) = p

\* the elements of S in increasing order
RECURSIVE SortedSeq(_)
SortedSeq(S) ==
    IF S = {} THEN << >>
    ELSE LET m == CHOOSE x \in S : \A y \in S : x <= y
         IN  <<m>> \o SortedSeq(S \ {m})

\* the pieces of s between the cut positions, cuts = <<0, ..., Len(s) + 1>>
Pieces(s, cuts) ==
    [k \in 1..(Len(cuts) - 1) |-> SubSeq(s, cuts[k] + 1, cuts[k + 1] - 1)]

\* s.split(sep), sep one character: s is cut at every occurrence of sep
split(s, sep) ==
    Pieces(s, <<0>> \o SortedSeq({i \in 1..Len(s) : Char(s, i) = sep})
              \o <<Len(s) + 1>>)

\* seq[-1]
Last(seq) == seq[Len(seq)]

---------------------------------------------------------------------------
(* nlp_risk.py: permission grouping *)

\* the keys of SENSITIVE_PERMISSION_GROUPS in insertion order
GroupOrder ==
    <<"location", "contacts", "camera", "microphone", "storage_media",
      "phone", "ads_tracking">>

Groups == {GroupOrder[i] : i \in DOMAIN GroupOrder}

SENSITIVE_PERMISSION_GROUPS ==
    [g \in Groups |->
        CASE g = "location" ->
               <<"ACCESS_FINE_LOCATION", "ACCESS_COARSE_LOCATION",
                 "ACCESS_BACKGROUND_LOCATION", "ACCESS_MEDIA_LOCATION",
                 "ACCESS_WIFI_STATE", "NEARBY_WIFI_DEVICES">>
          [] g = "contacts" ->
               <<"READ_CONTACTS", "WRITE_CONTACTS", "GET_ACCOUNTS", "READ_PROFILE">>
          [] g = "camera" ->
               <<"CAMERA", "CAPTURE_VIDEO_OUTPUT", "FOREGROUND_SERVICE_CAMERA">>
          [] g = "microphone" ->
               <<"RECORD_AUDIO", "FOREGROUND_SERVICE_MICROPHONE">>
          [] g = "storage_media" ->
               <<"READ_EXTERNAL_STORAGE", "WRITE_EXTERNAL_STORAGE",
                 "READ_MEDIA_IMAGES", "READ_MEDIA_VIDEO",
                 "READ_MEDIA_VISUAL_USER_SELECTED", "MANAGE_EXTERNAL_STORAGE">>
          [] g = "phone" ->
               <<"READ_PHONE_STATE", "READ_PHONE_NUMBERS", "CALL_PHONE",
                 "READ_CALL_LOG", "ANSWER_PHONE_CALLS", "MANAGE_OWN_CALLS">>
          [] g = "ads_tracking" ->
               <<"AD_ID", "ACCESS_ADSERVICES_AD_ID", "ACCESS_ADSERVICES_ATTRIBUTION">>]

\* a mutant of SuffixMatches: the endswith alternative is lost
SuffixMatches_EqualOnly(suffix, perm_suffixes) ==
    \E k \in DOMAIN perm_suffixes : suffix = perm_suffixes[k]

\* any(suffix == p or suffix.endswith(p) for p in perm_suffixes)
SuffixMatches(suffix, perm_suffixes) ==
    \E k \in DOMAIN perm_suffixes :
        suffix = perm_suffixes[k] \/ endswith(suffix, perm_suffixes[k])

\* the body of `for perm in permissions`: every group is tried, none excludes another
MarkSuffix(used_groups, suffix) ==
    [g \in Groups |->
        IF SuffixMatches(suffix, SENSITIVE_PERMISSION_GROUPS[g])
        THEN TRUE
        ELSE used_groups[g]]

\* suffix = perm.split(".")[-1]
MarkGroups(used_groups, perm) == MarkSuffix(used_groups, Last(split(perm, ".")))

RECURSIVE GroupLoop(_, _, _)
GroupLoop(used_groups, perms, i) ==
    IF i > Len(perms) THEN used_groups
    ELSE GroupLoop(MarkGroups(used_groups, perms[i]), perms, i + 1)

group_permissions(perms) ==
    GroupLoop([g \in Groups |-> FALSE], perms, 1)

---------------------------------------------------------------------------
(* nlp_risk.py: claim extraction *)

None == "None"

\* policy_text is Optional[str]: <<>> models None, <<s>> the string s
NoText == <<>>
Text(s) == <<s>>

\* Python truthiness of an Optional[str]
Truthy(pt) == pt # NoText /\ pt[1] # ""

\* `policy_text or ""`
OrEmpty(pt) == IF Truthy(pt) THEN pt[1] ELSE ""

ClaimOrder ==
    <<"mentions_location", "mentions_contacts", "mentions_camera",
      "mentions_microphone", "mentions_storage", "mentions_phone",
      "mentions_ads_tracking", "mentions_third_parties", "mentions_security">>

ClaimKeys == {ClaimOrder[i] : i \in DOMAIN ClaimOrder}

Keywords ==
    [c \in ClaimKeys |->
        CASE c = "mentions_location" ->
               <<"location", "geolocation", "gps", "locational data">>
          [] c = "mentions_contacts" ->
               <<"contacts", "address book", "contact list">>
          [] c = "mentions_camera" ->
               <<"camera", "photos", "take pictures", "video recording">>
          [] c = "mentions_microphone" ->
               <<"microphone", "audio recording", "voice recording">>
          [] c = "mentions_storage" ->
               <<"storage", "files on your device", "media files", "photos and videos">>
          [] c = "mentions_phone" ->
               <<"phone number", "call log", "telephony">>
          [] c = "mentions_ads_tracking" ->
               <<"advertising id", "ads", "ad partners", "personalized ads",
                 "analytics partners">>
          [] c = "mentions_third_parties" ->
               <<"third parties", "partners", "service providers", "affiliates">>
          [] c = "mentions_security" ->
               <<"encrypt", "security", "protect your data", "secure", "safeguard">>]

\* the returned dict, given text = policy_text.lower()
KeywordClaims(text) ==
    [c \in ClaimKeys |->
        \E k \in DOMAIN Keywords[c] : contains(text, Keywords[c][k])]

keyword_extract_claims(s) == KeywordClaims(lower(s))

\* a mutant of init_zero_shot: a handle already built is reported as a failure
init_zero_shot_CachedFails(handle, init_ok) ==
    IF handle # None THEN [ok |-> FALSE, handle |-> handle]
    ELSE IF init_ok THEN [ok |-> TRUE, handle |-> "pipeline"]
    ELSE [ok |-> FALSE, handle |-> None]

\* init_ok: whether the import and pipeline(...) return instead of raising
init_zero_shot(handle, init_ok) ==
    IF handle # None THEN [ok |-> TRUE, handle |-> handle]
    ELSE IF init_ok THEN [ok |-> TRUE, handle |-> "pipeline"]
    ELSE [ok |-> FALSE, handle |-> None]

candidate_labels ==
    <<"collects location data", "collects contact data",
      "collects camera or photos", "collects microphone or audio",
      "collects storage or files", "collects phone numbers or call logs",
      "uses advertising ids or tracking",
      "shares data with third parties or partners",
      "mentions security or encryption">>

\* the label each returned claim key reads (lines 71-79)
ClaimLabel ==
    [c \in ClaimKeys |->
        candidate_labels[CHOOSE i \in DOMAIN ClaimOrder : ClaimOrder[i] = c]]

ZS_THRESHOLD == 35
MIN_ZS_LEN == 20

\* labels = {lab: score for lab, score in zip(res["labels"], res["scores"])};
\* labels.get(s, 0.0): a repeated label keeps its last score
LabelScore(res, s) ==
    LET n == IF Len(res.labels) < Len(res.scores) THEN Len(res.labels) ELSE Len(res.scores)
        hits == {i \in 1..n : res.labels[i] = s}
    IN  IF hits = {} THEN 0
        ELSE res.scores[CHOOSE i \in hits : \A j \in hits : j <= i]

\* a mutant of label_true: the threshold is exclusive
label_true_Strict(res, s) == LabelScore(res, s) > ZS_THRESHOLD

label_true(res, s) == LabelScore(res, s) >= ZS_THRESHOLD

zero_shot_claims(res) ==
    [c \in ClaimKeys |-> label_true(res, ClaimLabel[c])]

\* lines 47-83, init the outcome of _init_zero_shot()
AfterInit(pt, init, env) ==
    IF ~init.ok \/ init.handle = None
    THEN [claims |-> keyword_extract_claims(pt[1]),
          handle |-> init.handle, strategy |-> "keyword"]
    ELSE IF env.call.kind \in {"raise", "malformed"}
         THEN [claims |-> keyword_extract_claims(pt[1]),
               handle |-> init.handle, strategy |-> "keyword"]
         ELSE [claims |-> zero_shot_claims(env.call),
               handle |-> init.handle, strategy |-> "zero_shot"]

\* What the classifier backend does when asked:
\*   env.init : pipeline construction returns (TRUE) or raises (FALSE)
\*   env.call : what classifier(...) does, by kind: "raise"; "malformed" (it
\*              returns a value without labels/scores); "returned" (it returns
\*              res, with res["labels"] and res["scores"])
\* The outcome is [claims, handle, strategy].
extract_policy_claims(pt, handle, env) ==
    IF ~Truthy(pt) \/ Len(strip(pt[1])) < MIN_ZS_LEN
    THEN [claims |-> keyword_extract_claims(OrEmpty(pt)),
          handle |-> handle, strategy |-> "keyword"]
    ELSE AfterInit(pt, init_zero_shot(handle, env.init), env)

---------------------------------------------------------------------------
(* nlp_risk.py: compute_privacy_risk *)

MIN_POLICY_LEN == 50
MAX_RISK_POINTS == 90
LOW_SCORE == 75
MEDIUM_SCORE == 50
SHORT_POLICY_SCORE == 25

InsufficientReason ==
    "No or insufficient privacy policy text available for analysis."
ManyReason ==
    "App uses many categories of sensitive data (high data exposure surface)."
MultipleReason == "App uses multiple types of sensitive data."
OneReason == "App accesses at least one type of sensitive data."
ProfilingReason ==
    "App uses advertising IDs / tracking, which increases profiling and behavioral targeting risk."
ThirdPartiesReason ==
    "Privacy policy does not clearly describe sharing with third parties or partners."
SecurityReason ==
    "Privacy policy does not mention data security or protection measures clearly."
DefaultReason ==
    "No major mismatches or privacy concerns detected based on available information."

\* f"App accesses {label}, but the privacy policy does not clearly mention it."
MismatchReason(label) ==
    "App accesses " \o label \o ", but the privacy policy does not clearly mention it."

\* a mutant of IsInsufficient: a policy of exactly 50 characters is refused too
IsInsufficient_Inclusive(pt) ==
    ~Truthy(pt) \/ Len(strip(pt[1])) <= MIN_POLICY_LEN

\* `not policy_text or len(policy_text.strip()) < 50`
IsInsufficient(pt) ==
    ~Truthy(pt) \/ Len(strip(pt[1])) < MIN_POLICY_LEN

\* sum(1 for v in used_groups.values() if v)
NumGroupsUsed(used_groups) == Cardinality({g \in Groups : used_groups[g]})

\* The accumulator acc = [risk_points, reasons] is threaded through the steps.
Add(acc, weight, reason) ==
    [risk_points |-> acc.risk_points + weight,
     reasons |-> Append(acc.reasons, reason)]

\* lines 142-150
Breadth(acc, n) ==
    IF n >= 5 THEN Add(acc, 20, ManyReason)
    ELSE IF n >= 3 THEN Add(acc, 10, MultipleReason)
    ELSE IF n >= 1 THEN Add(acc, 5, OneReason)
    ELSE acc

\* the seven check(...) calls, in call order
CheckTable ==
    << [group |-> "location", claim |-> "mentions_location",
        label |-> "location data", weight |-> 10],
       [group |-> "contacts", claim |-> "mentions_contacts",
        label |-> "contacts", weight |-> 10],
       [group |-> "camera", claim |-> "mentions_camera",
        label |-> "camera", weight |-> 10],
       [group |-> "microphone", claim |-> "mentions_microphone",
        label |-> "microphone/audio", weight |-> 10],
       [group |-> "storage_media", claim |-> "mentions_storage",
        label |-> "media/storage", weight |-> 7],
       [group |-> "phone", claim |-> "mentions_phone",
        label |-> "phone/call information", weight |-> 7],
       [group |-> "ads_tracking", claim |-> "mentions_ads_tracking",
        label |-> "advertising IDs / tracking", weight |-> 7] >>

\* def check(group_key, claim_key, label, weight)
check(acc, used_groups, claims, row) ==
    IF used_groups[row.group] /\ ~claims[row.claim]
    THEN Add(acc, row.weight, MismatchReason(row.label))
    ELSE acc

RECURSIVE CheckLoop(_, _, _, _)
CheckLoop(acc, used_groups, claims, i) ==
    IF i > Len(CheckTable) THEN acc
    ELSE CheckLoop(check(acc, used_groups, claims, CheckTable[i]),
                   used_groups, claims, i + 1)

\* a mutant of AdsBonus: the bonus is given only when the policy is silent
AdsBonus_OnlyOnMismatch(acc, used_groups, claims) ==
    IF used_groups["ads_tracking"] /\ ~claims["mentions_ads_tracking"]
    THEN Add(acc, 5, ProfilingReason)
    ELSE acc

\* lines 166-168
AdsBonus(acc, used_groups, claims) ==
    IF used_groups["ads_tracking"] THEN Add(acc, 5, ProfilingReason) ELSE acc

\* a mutant of PolicyPenalties: the security check runs before the third-parties one
PolicyPenalties_Swapped(acc, claims) ==
    LET a1 == IF ~claims["mentions_security"]
              THEN Add(acc, 5, SecurityReason) ELSE acc
    IN  IF ~claims["mentions_third_parties"]
        THEN Add(a1, 8, ThirdPartiesReason) ELSE a1

\* lines 170-176
PolicyPenalties(acc, claims) ==
    LET a1 == IF ~claims["mentions_third_parties"]
              THEN Add(acc, 8, ThirdPartiesReason) ELSE acc
    IN  IF ~claims["mentions_security"]
        THEN Add(a1, 5, SecurityReason) ELSE a1

\* a mutant of Clamp: the ceiling is lost
Clamp_Missing(points) == points

\* lines 178-179
Clamp(points) == IF points > MAX_RISK_POINTS THEN MAX_RISK_POINTS ELSE points

Max(a, b) == IF a >= b THEN a ELSE b

\* a mutant of LevelOf: 75 itself is no longer LOW
LevelOf_Strict(score) ==
    IF score > LOW_SCORE THEN "LOW"
    ELSE IF score >= MEDIUM_SCORE THEN "MEDIUM"
    ELSE "HIGH"

\* lines 183-188
LevelOf(score) ==
    IF score >= LOW_SCORE THEN "LOW"
    ELSE IF score >= MEDIUM_SCORE THEN "MEDIUM"
    ELSE "HIGH"

\* lines 181-199, points the clamped risk_points
Conclude(ex, used_groups, points, reasons) ==
    [result |-> [score |-> Max(0, 100 - points),
                 level |-> LevelOf(Max(0, 100 - points)),
                 reasons |-> IF reasons = << >> THEN <<DefaultReason>> ELSE reasons,
                 claims |-> ex.claims,
                 used_groups |-> used_groups],
     handle |-> ex.handle, risk_points |-> points, strategy |-> ex.strategy]

\* lines 137-179: the steps in order
Accumulate(used_groups, claims) ==
    PolicyPenalties(
        AdsBonus(
            CheckLoop(
                Breadth([risk_points |-> 0, reasons |-> << >>],
                        NumGroupsUsed(used_groups)),
                used_groups, claims, 1),
            used_groups, claims),
        claims)

Finish(ex, used_groups, acc) ==
    Conclude(ex, used_groups, Clamp(acc.risk_points), acc.reasons)

\* lines 134-199, ex the outcome of extract_policy_claims
Assess(ex, used_groups) ==
    Finish(ex, used_groups, Accumulate(used_groups, ex.claims))

\* compute_privacy_risk, given grouped = group_permissions(permissions), the
\* one value either branch reads of the permissions.  The outcome is
\* [result, handle, risk_points, strategy]; risk_points and strategy are None
\* where the code never binds them.
privacy_risk(grouped, pt, handle, env) ==
    IF IsInsufficient(pt)
    THEN [result |-> [score |-> SHORT_POLICY_SCORE,
                      level |-> "HIGH",
                      reasons |-> <<InsufficientReason>>,
                      claims |-> << >>,
                      used_groups |-> grouped],
          handle |-> handle, risk_points |-> None, strategy |-> None]
    ELSE Assess(extract_policy_claims(pt, handle, env), grouped)

compute_privacy_risk(perms, pt, handle, env) ==
    privacy_risk(group_permissions(perms), pt, handle, env)

---------------------------------------------------------------------------
(* tracker_analysis.py: the tracker list and classify_domains *)

\* the built-in list used when the CSV cannot be read
FallbackTrackers ==
    << <<"doubleclick.net", "ads">>,
       <<"google-analytics.com", "analytics">>,
       <<"googlesyndication.com", "ads">>,
       <<"firebaseio.com", "backend">>,
       <<"facebook.com", "social">> >>

\* A cell of a csv.DictReader row: the column is not in the header ("absent",
\* so row.get returns its default), the row is too short for it ("none", the
\* reader fills in None), or it holds the string s ("str").
Absent == [kind |-> "absent", s |-> ""]
ShortRow == [kind |-> "none", s |-> ""]
Cell(s) == [kind |-> "str", s |-> s]

\* row.get(key, default) for a cell that is not None
Get(cell, default) == IF cell.kind = "absent" THEN default ELSE cell.s

\* None.strip() raises AttributeError inside the try
RowRaises(row) == row.domain.kind = "none" \/ row.category.kind = "none"

\* lines 21-24: the (dom, cat) pair a row appends, if any
RowEntry(dom, cat) == IF dom # "" THEN << <<dom, cat>> >> ELSE << >>

RECURSIVE ReadRows(_, _)
ReadRows(rows, i) ==
    IF i > Len(rows) THEN << >>
    ELSE RowEntry(lower(strip(Get(rows[i].domain, ""))),
                  lower(strip(Get(rows[i].category, "tracker"))))
         \o ReadRows(rows, i + 1)

\* file = [exists, rows]: open() raises when the file does not exist
load_tracker_list(file) ==
    IF ~file.exists THEN FallbackTrackers
    ELSE IF \E i \in DOMAIN file.rows : RowRaises(file.rows[i])
         THEN FallbackTrackers
         ELSE ReadRows(file.rows, 1)

\* lines 100-105: the category of the first pattern found in dom, else None
MatchedCategory(dom, patterns) ==
    IF \E i \in DOMAIN patterns : contains(dom, patterns[i][1])
    THEN patterns[CHOOSE i \in DOMAIN patterns :
                      /\ contains(dom, patterns[i][1])
                      /\ \A j \in 1..(i - 1) : ~contains(dom, patterns[j][1])][2]
    ELSE None

\* `if matched_category:` -- neither None nor the empty string
IsTracker(matched_category) == matched_category # None /\ matched_category # ""

\* category_counts.get(cat, 0) + 1
Count(category_counts, cat) ==
    [c \in DOMAIN category_counts \cup {cat} |->
        IF c = cat
        THEN (IF cat \in DOMAIN category_counts THEN category_counts[cat] ELSE 0) + 1
        ELSE category_counts[c]]

\* tracker_domains[dom] = matched_category
Put(tracker_domains, dom, cat) ==
    [d \in DOMAIN tracker_domains \cup {dom} |->
        IF d = dom THEN cat ELSE tracker_domains[d]]

\* lines 107-109, acc = [tracker_domains, category_counts]
Record(acc, dom, matched_category) ==
    IF IsTracker(matched_category)
    THEN [tracker_domains |-> Put(acc.tracker_domains, dom, matched_category),
          category_counts |-> Count(acc.category_counts, matched_category)]
    ELSE acc

\* `for dom in domains`: a set is iterated in an order of its own; the two
\* dicts compare equal whatever the order
RECURSIVE ClassifyLoop(_, _, _)
ClassifyLoop(todo, patterns, acc) ==
    IF todo = {} THEN acc
    ELSE LET dom == CHOOSE d \in todo : TRUE
         IN  ClassifyLoop(todo \ {dom}, patterns,
                          Record(acc, dom, MatchedCategory(dom, patterns)))

\* a mutant of TrackerRiskLevel: ten trackers already count as HIGH
TrackerRiskLevel_Early(num_trackers) ==
    IF num_trackers = 0 THEN "LOW"
    ELSE IF num_trackers <= 3 THEN "MEDIUM"
    ELSE IF num_trackers < 10 THEN "MEDIUM"
    ELSE "HIGH"

\* lines 114-121
TrackerRiskLevel(num_trackers) ==
    IF num_trackers = 0 THEN "LOW"
    ELSE IF num_trackers <= 3 THEN "MEDIUM"
    ELSE IF num_trackers <= 10 THEN "MEDIUM"
    ELSE "HIGH"

\* code point order of the characters host names are made of
CodeOrder == "-.0123456789abcdefghijklmnopqrstuvwxyz"

Code(c) == CHOOSE i \in 1..Len(CodeOrder) : Char(CodeOrder, i) = c

\* a < b as Python compares str
RECURSIVE StrLess(_, _)
StrLess(a, b) ==
    IF Len(b) = 0 THEN FALSE
    ELSE IF Len(a) = 0 THEN TRUE
    ELSE IF Char(a, 1) = Char(b, 1)
         THEN StrLess(SubSeq(a, 2, Len(a)), SubSeq(b, 2, Len(b)))
         ELSE Code(Char(a, 1)) < Code(Char(b, 1))

\* sorted(domains)
RECURSIVE sorted(_)
sorted(S) ==
    IF S = {} THEN << >>
    ELSE LET m == CHOOSE x \in S : \A y \in S \ {x} : StrLess(x, y)
         IN  <<m>> \o sorted(S \ {m})

\* lines 111-130, acc the dicts the loop has filled
Summary(doms, acc) ==
    [all_domains |-> sorted(doms),
     tracker_domains |-> acc.tracker_domains,
     num_domains |-> Cardinality(doms),
     num_trackers |-> Cardinality(DOMAIN acc.tracker_domains),
     category_counts |-> acc.category_counts,
     risk_level |-> TrackerRiskLevel(Cardinality(DOMAIN acc.tracker_domains))]

classify_domains(doms, patterns) ==
    Summary(doms, ClassifyLoop(doms, patterns,
                               [tracker_domains |-> << >>, category_counts |-> << >>]))

---------------------------------------------------------------------------
(* tracker_analysis.py: extract_domains_from_apk *)

\* The bytes of an entry are the characters of a string.  The characters of
\* Ascii stand for the ASCII bytes they are; any other character stands for a
\* byte that is not part of a UTF-8 sequence.
Ascii ==
    " !\"#$%&'()*+,-./0123456789:;<=>?@ABCDEFGHIJKLMNOPQRSTUVWXYZ[\\]^_abcdefghijklmnopqrstuvwxyz{|}~\t\n\r\f"

AsciiChars == {Char(Ascii, i) : i \in 1..Len(Ascii)}

\* [^\s\"'<>] of URL_PATTERN: \s of a bytes pattern is ASCII whitespace
UrlStops == Whitespace \cup {"\"", "'", "<", ">"}

\* https?:// at position i: the length matched, 0 if none
SchemeAt(data, i) ==
    IF i + 7 <= Len(data) /\ SubSeq(data, i, i + 7) = "https://" THEN 8
    ELSE IF i + 6 <= Len(data) /\ SubSeq(data, i, i + 6) = "http://" THEN 7
    ELSE 0

\* [^\s\"'<>]+ is greedy: the last position of the run that starts at j
\* (j - 1 if the run is empty)
RECURSIVE RunEnd(_, _)
RunEnd(data, j) ==
    IF j > Len(data) \/ Char(data, j) \in UrlStops THEN j - 1
    ELSE RunEnd(data, j + 1)

RECURSIVE findall(_, _)

\* the scan at position i, k = SchemeAt(data, i), e = RunEnd(data, i + k)
MatchAt(data, i, k, e) ==
    IF k > 0 /\ e >= i + k
    THEN <<SubSeq(data, i, e)>> \o findall(data, e + 1)
    ELSE findall(data, i + 1)

\* URL_PATTERN.findall(data) from position i on: leftmost matches, one after
\* the end of the other
findall(data, i) ==
    IF i > Len(data) THEN << >>
    ELSE MatchAt(data, i, SchemeAt(data, i), RunEnd(data, i + SchemeAt(data, i)))

\* match.decode("utf-8", errors="ignore"): the bytes that are not UTF-8 are
\* dropped
RECURSIVE decode(_)
decode(b) ==
    IF Len(b) = 0 THEN ""
    ELSE IF Len(b) = 1 THEN (IF b \in AsciiChars THEN b ELSE "")
    ELSE decode(SubSeq(b, 1, Len(b) \div 2))
         \o decode(SubSeq(b, Len(b) \div 2 + 1, Len(b)))

\* the positions of the characters of s that are in the set cs
Positions(s, cs) == {i \in 1..Len(s) : Char(s, i) \in cs}

\* s up to its first character in cs
UpTo(s, cuts) ==
    IF cuts = {} THEN s
    ELSE SubSeq(s, 1, (CHOOSE i \in cuts : \A j \in cuts : i <= j) - 1)

\* urlparse(url) for a url that starts with http:// or https://, as every
\* match does: the netloc runs from the // to the first of / ? #; brackets
\* that do not pair raise ValueError("Invalid IPv6 URL")
NetlocOf(rest) == UpTo(rest, Positions(rest, {"/", "?", "#"}))

UnpairedBracket(netloc) ==
    \/ contains(netloc, "[") /\ ~contains(netloc, "]")
    \/ contains(netloc, "]") /\ ~contains(netloc, "[")

urlparse(url) ==
    [raises |-> UnpairedBracket(NetlocOf(SubSeq(url, SchemeAt(url, 1) + 1, Len(url)))),
     netloc |-> NetlocOf(SubSeq(url, SchemeAt(url, 1) + 1, Len(url)))]

\* lines 44-45: host.split(":", 1)[0]
DropPort(host) == IF contains(host, ":") THEN split(host, ":")[1] ELSE host

\* lines 46-47
DropWww(host) == IF startswith(host, "www.") THEN SubSeq(host, 5, Len(host)) ELSE host

Cleaned(parsed) ==
    IF parsed.raises THEN "" ELSE DropWww(DropPort(lower(parsed.netloc)))

clean_domain(url) == Cleaned(urlparse(url))

SKIPPED_EXTENSIONS ==
    <<".so", ".png", ".jpg", ".jpeg", ".webp", ".gif", ".mp3", ".mp4", ".ogg",
      ".wav", ".ttf", ".otf", ".ico", ".pdf">>

\* name.endswith((...))
IsSkipped(name) ==
    \E k \in DOMAIN SKIPPED_EXTENSIONS : endswith(name, SKIPPED_EXTENSIONS[k])

\* ZipInfo.is_dir()
is_dir(info) == endswith(info.filename, "/")

\* a mutant of TooLarge: an entry of exactly max_file_size is skipped
TooLarge_Inclusive(info, max) == info.file_size >= max

\* line 71
TooLarge(info, max) == info.file_size > max

\* lines 80-87: the domains the matches add
AddMatches(matches, found) ==
    found \cup ({clean_domain(decode(matches[k])) : k \in DOMAIN matches} \ {""})

\* lines 58-87 for one entry; info.readable: zf.read(info) returns info.data
\* instead of raising
ScanEntry(info, max, found) ==
    IF is_dir(info) THEN found
    ELSE IF IsSkipped(lower(info.filename)) THEN found
    ELSE IF TooLarge(info, max) THEN found
    ELSE IF ~info.readable THEN found
    ELSE AddMatches(findall(info.data, 1), found)

RECURSIVE ScanLoop(_, _, _, _)
ScanLoop(entries, i, max, found) ==
    IF i > Len(entries) THEN found
    ELSE ScanLoop(entries, i + 1, max, ScanEntry(entries[i], max, found))

\* archive.opens: zipfile.ZipFile(apk_path) returns instead of raising
extract_domains_from_apk(archive, max) ==
    IF ~archive.opens THEN {}
    ELSE ScanLoop(archive.entries, 1, max, {})

---------------------------------------------------------------------------
(* Inputs *)

MaxPerms == 3

SeqsUpTo(S, n) == UNION {[1..k -> S] : k \in 0..n}

\* permission strings as a manifest may declare them
PermPool ==
    {"android.permission.CAMERA",
     "android.permission.ACCESS_FINE_LOCATION",
     "com.google.android.gms.permission.AD_ID",
     "com.vendor.permission.MY_READ_CONTACTS",
     "android.permission.INTERNET",
     "CAMERA.android.permission",
     "android.permission.RECORD_AUDIO.",
     "READ_CALL_LOG",
     "android.permission.camera",
     ""}

GroupPermLists == SeqsUpTo(PermPool, MaxPerms)

\* one declared permission per group, sorted as analyze_apk sorts them
ManifestPerms ==
    <<"android.permission.ACCESS_ADSERVICES_AD_ID",
      "android.permission.ACCESS_COARSE_LOCATION",
      "android.permission.CAMERA",
      "android.permission.READ_CONTACTS",
      "android.permission.READ_MEDIA_IMAGES",
      "android.permission.READ_PHONE_STATE",
      "android.permission.RECORD_AUDIO">>

\* every contiguous slice of the manifest, the empty one included
RiskPermLists ==
    {SubSeq(ManifestPerms, i, j) : i \in 1..(Len(ManifestPerms) + 1),
                                   j \in 0..Len(ManifestPerms)}

\* n copies of c
RECURSIVE Rep(_, _)
Rep(c, n) ==
    IF n = 0 THEN ""
    ELSE IF n = 1 THEN c
    ELSE Rep(c, n \div 2) \o Rep(c, n - n \div 2)

AllKeywordsText ==
    "We use your location, contacts, camera, microphone, storage, phone number and ads; partners keep it secure."
SomeKeywordsText ==
    "This App reads your GPS position and Photos. Data is ENCRYPTED and never sold to anybody."

\* policies around the 50-character limit, with and without surrounding blanks
RiskTexts ==
    {NoText, Text(""), Text("   "),
     Text(Rep("x", MIN_POLICY_LEN - 1)),
     Text("  " \o Rep("x", MIN_POLICY_LEN - 1) \o " \n"),
     Text("\t" \o Rep("x", MIN_POLICY_LEN) \o "  "),
     Text(Rep("x", 60)),
     Text(AllKeywordsText),
     Text(SomeKeywordsText)}

\* policies around the 20-character limit of extract_policy_claims
ClaimTexts ==
    {NoText, Text(""),
     Text("camera gps"),
     Text(Rep("x", MIN_ZS_LEN - 1)),
     Text("    secure " \o Rep("x", MIN_ZS_LEN - 8) \o "    "),
     Text(Rep("x", MIN_ZS_LEN)),
     Text(" " \o Rep("x", MIN_ZS_LEN) \o " "),
     Text("We may access the CAMERA and Address Book."),
     Text(AllKeywordsText)}

\* the label positions by descending score, ties in the order asked
RECURSIVE ByScore(_, _)
ByScore(S, sc) ==
    IF S = {} THEN << >>
    ELSE LET m == CHOOSE x \in S :
                      \A y \in S : sc[x] > sc[y] \/ (sc[x] = sc[y] /\ x <= y)
         IN  <<m>> \o ByScore(S \ {m}, sc)

\* the pipeline's answer for the scores sc: labels and scores sorted by score
Ranked(sc, order) ==
    [kind |-> "returned",
     labels |-> [k \in DOMAIN order |-> candidate_labels[order[k]]],
     scores |-> [k \in DOMAIN order |-> sc[order[k]]]]

\* scores on either side of the threshold
ScoreValues == {ZS_THRESHOLD - 1, ZS_THRESHOLD}

\* what the pipeline may return: a score per candidate label, the labels
\* ordered by score, or a partial answer
Responses ==
    {Ranked(sc, ByScore(DOMAIN candidate_labels, sc)) :
        sc \in [DOMAIN candidate_labels -> ScoreValues]}
    \cup
    {[kind |-> "returned", labels |-> SubSeq(candidate_labels, 1, 4),
      scores |-> <<99, 99, 0, 99>>]}

Raises == [kind |-> "raise", labels |-> << >>, scores |-> << >>]
Malformed == [kind |-> "malformed", labels |-> << >>, scores |-> << >>]

CallOutcomes == {Raises, Malformed} \cup Responses

NoEnv == [init |-> FALSE, call |-> Raises]

\* The backend's possible behaviours during one call.  It is only asked
\* about a text whose trimmed length reaches `limit` (20 from
\* extract_policy_claims, 50 through compute_privacy_risk), and the pipeline
\* is only built while the handle is unset.
EnvsBuilt == {[init |-> TRUE, call |-> c] : c \in CallOutcomes}
EnvsUnbuilt == EnvsBuilt \cup {NoEnv}

EnvsFor(pt, handle, limit) ==
    IF ~Truthy(pt) \/ Len(strip(pt[1])) < limit THEN {NoEnv}
    ELSE IF handle = None THEN EnvsUnbuilt ELSE EnvsBuilt

NumThreads == 2

Threads == 1..NumThreads

\* the calls the threads of one process make
ThreadCalls ==
    {[op |-> "compute_privacy_risk",
      permissions |-> <<"android.permission.CAMERA">>,
      policy_text |-> Text(Rep("x", MIN_POLICY_LEN))],
     [op |-> "compute_privacy_risk",
      permissions |-> <<"android.permission.READ_CONTACTS">>,
      policy_text |-> NoText],
     [op |-> "extract_policy_claims",
      permissions |-> << >>,
      policy_text |-> Text("Camera; Address Book")]}

\* what the pipeline does when a thread calls it
ThreadAnswers ==
    {Raises,
     [kind |-> "returned", labels |-> SubSeq(candidate_labels, 1, 4),
      scores |-> <<99, 99, 0, 99>>]}

\* a thread that has not entered a call
IdleCall ==
    [pc |-> "idle", op |-> None, permissions |-> << >>, policy_text |-> NoText,
     ok |-> FALSE, classifier |-> None, answer |-> Raises, strategy |-> None,
     result |-> None]

NoCalls == [t \in Threads |-> IdleCall]

DEFAULT_MAX_FILE_SIZE == 2000000

MaxEntries == 2

Entry(filename, file_size, readable, data) ==
    [filename |-> filename, file_size |-> file_size, readable |-> readable,
     data |-> data]

\* entries as packages hold them: text with URLs at the size ceilings, a
\* library, an upper-case image name, an oversized file, a directory, an entry
\* whose data cannot be inflated, and bytes around unusual URLs
EntryPool ==
    {Entry("assets/config.json", DEFAULT_MAX_FILE_SIZE, TRUE,
           "{\"api\": \"https://WWW.Example.com:8443/v1?x=1\", \"v6\": \"http://[::1/\"}"),
     Entry("res/raw/urls.txt", 10, TRUE,
           "xhttp://a.com/http://b.com http://<x https://ads.doubleclick.net"),
     Entry("lib/arm64/libtrack.so", 9, TRUE, "http://lib.hidden.net/"),
     Entry("res/drawable/LOGO.PNG", 9, TRUE, "http://png.hidden.net/"),
     Entry("classes.dex", DEFAULT_MAX_FILE_SIZE + 1, TRUE, "http://big.hidden.net/"),
     Entry("classes2.dex", 11, TRUE, "http://mid.example.org/a"),
     Entry("META-INF/", 0, TRUE, "http://dir.hidden.net/"),
     Entry("assets/broken.txt", 9, FALSE, "http://broken.hidden.net/"),
     Entry("resources.arsc", 9, TRUE,
           "http://[bad http:///p http://www. http://:80 http://cdnÿ.track.io\fhttp://"),
     Entry("assets/song.mp3.txt", 0, TRUE, "'http://user@Host.COM:80/p'>https://a.com#f")}

NoApk == [opens |-> FALSE, entries |-> << >>]

\* the file at apk_path: not a readable zip archive, or entries in order
Archives ==
    {NoApk} \cup {[opens |-> TRUE, entries |-> es] : es \in SeqsUpTo(EntryPool, MaxEntries)}

MaxFileSizes == {DEFAULT_MAX_FILE_SIZE, 10}

MaxCalls == 2

\* the manifests and policies of the applications analysed in one process
CallPerms == {<< >>, <<"android.permission.CAMERA">>, ManifestPerms}

CallTexts ==
    {NoText, Text(Rep("x", MIN_POLICY_LEN - 1)), Text(Rep("x", 60)),
     Text(AllKeywordsText)}

\* the texts of CallTexts that reach the classifier
AskedTexts == {pt[1] : pt \in {t \in CallTexts : ~IsInsufficient(t)}}

\* what the classifier does with one text, every time it is given that text
CallAnswers ==
    {Raises,
     Ranked([i \in DOMAIN candidate_labels |-> IF i % 2 = 1 THEN 80 ELSE 10],
            <<1, 3, 5, 7, 9, 2, 4, 6, 8>>),
     [kind |-> "returned", labels |-> SubSeq(candidate_labels, 1, 4),
      scores |-> <<99, 99, 0, 99>>]}

\* A backend that behaves the same throughout a process: the pipeline can be
\* built or cannot, and a text always gets the same answer.
Backends ==
    {[init |-> b, answers |-> f] : b \in BOOLEAN, f \in [AskedTexts -> CallAnswers]}

\* no backend is consulted
NoBackend == [init |-> FALSE, answers |-> << >>]

MaxHosts == 12

NoFile == [exists |-> FALSE, rows |-> << >>]
File(rows) == [exists |-> TRUE, rows |-> rows]

\* trackers.csv as it may be found at import
CsvFiles ==
    {NoFile,
     File(<< [domain |-> Cell(" DoubleClick.NET "), category |-> Cell("Ads")],
             [domain |-> Cell("google-analytics.com"), category |-> Absent],
             [domain |-> Cell("  "), category |-> Cell("ignored")],
             [domain |-> Cell("facebook.com"), category |-> Cell(" Social")] >>),
     File(<< [domain |-> Cell("click.net"), category |-> Cell("analytics")],
             [domain |-> Cell("doubleclick.net"), category |-> Cell("ads")],
             [domain |-> Cell("firebaseio.com"), category |-> Cell("backend")] >>),
     File(<< [domain |-> Cell("doubleclick.net"), category |-> Cell("ads")],
             [domain |-> Cell("facebook.com"), category |-> ShortRow] >>),
     File(<< [domain |-> Cell("doubleclick.net"), category |-> Cell("")],
             [domain |-> Cell("net"), category |-> Cell("generic")],
             [domain |-> Cell("facebook.com"), category |-> Cell("social")] >>)}

Digits == "0123456789"

\* str(k), k >= 0
RECURSIVE Str(_)
Str(k) ==
    IF k < 10 THEN Char(Digits, k + 1)
    ELSE Str(k \div 10) \o Char(Digits, (k % 10) + 1)

\* the k-th host of an SDK-heavy package
Host(k) ==
    "cdn" \o Str(k) \o (IF k % 2 = 1 THEN ".doubleclick.net" ELSE ".firebaseio.com")

SmallHosts ==
    {"example.com", "ads.doubleclick.net", "notdoubleclick.net.evil.org",
     "graph.facebook.com", "ssl.google-analytics.com"}

\* the domain sets extracted from a package: some of the small hosts and the
\* first n SDK hosts
DomainSets ==
    {some \cup {Host(k) : k \in 1..n} : some \in SUBSET SmallHosts, n \in 0..MaxHosts}

---------------------------------------------------------------------------
(* The calls *)

\* no call in progress and none returned
NoCall ==
    /\ op = None
    /\ permissions = << >>
    /\ policy_text = NoText
    /\ domains = {}
    /\ apk = NoApk
    /\ max_file_size = DEFAULT_MAX_FILE_SIZE
    /\ result = None
    /\ risk_points = None
    /\ strategy = None
    /\ backend = NoEnv

InitIdle ==
    /\ pc = "idle"
    /\ ZS_CLASSIFIER = None
    /\ TRACKER_PATTERNS = << >>
    /\ zs_backend = NoBackend
    /\ history = << >>
    /\ calls = NoCalls
    /\ NoCall

GroupPermissions(perms) ==
    /\ pc = "idle"
    /\ pc' = "done"
    /\ op' = "group_permissions"
    /\ permissions' = perms
    /\ result' = group_permissions(perms)
    /\ UNCHANGED <<ZS_CLASSIFIER, TRACKER_PATTERNS, policy_text, domains,
                   risk_points, strategy, backend, zs_backend, history>>
    /\ UNCHANGED <<apk, max_file_size>>
    /\ UNCHANGED calls

ExtractPolicyClaims(pt, env) ==
    /\ pc = "idle"
    /\ \E out \in {extract_policy_claims(pt, ZS_CLASSIFIER, env)} :
           /\ result' = out.claims
           /\ ZS_CLASSIFIER' = out.handle
           /\ strategy' = out.strategy
    /\ pc' = "done"
    /\ op' = "extract_policy_claims"
    /\ policy_text' = pt
    /\ backend' = env
    /\ UNCHANGED <<TRACKER_PATTERNS, permissions, domains, risk_points,
                   zs_backend, history>>
    /\ UNCHANGED <<apk, max_file_size>>
    /\ UNCHANGED calls

\* a call of compute_privacy_risk(perms, pt) returning out, the backend doing env
ReturnRisk(perms, pt, env, out) ==
    /\ pc = "idle"
    /\ backend' = env
    /\ result' = out.result
    /\ ZS_CLASSIFIER' = out.handle
    /\ risk_points' = out.risk_points
    /\ strategy' = out.strategy
    /\ pc' = "done"
    /\ op' = "compute_privacy_risk"
    /\ permissions' = perms
    /\ policy_text' = pt
    /\ UNCHANGED <<TRACKER_PATTERNS, domains, zs_backend>>
    /\ UNCHANGED <<apk, max_file_size>>
    /\ UNCHANGED calls

\* grouped = group_permissions(perms), evaluated once for all policies and
\* backend behaviours tried with perms
ComputePrivacyRisk(perms, grouped, pt, env) ==
    /\ ReturnRisk(perms, pt, env, privacy_risk(grouped, pt, ZS_CLASSIFIER, env))
    /\ UNCHANGED history

\* the caller drops the returned value; the module globals stay
Return ==
    /\ pc = "done"
    /\ pc' = "idle"
    /\ op' = None
    /\ permissions' = << >>
    /\ policy_text' = NoText
    /\ domains' = {}
    /\ apk' = NoApk
    /\ max_file_size' = DEFAULT_MAX_FILE_SIZE
    /\ result' = None
    /\ risk_points' = None
    /\ strategy' = None
    /\ backend' = NoEnv
    /\ UNCHANGED <<ZS_CLASSIFIER, TRACKER_PATTERNS, zs_backend, history>>
    /\ UNCHANGED calls

ClassifyDomains(doms) ==
    /\ pc = "idle"
    /\ pc' = "done"
    /\ op' = "classify_domains"
    /\ domains' = doms
    /\ result' = classify_domains(doms, TRACKER_PATTERNS)
    /\ UNCHANGED <<ZS_CLASSIFIER, TRACKER_PATTERNS, permissions, policy_text,
                   risk_points, strategy, backend, zs_backend, history>>
    /\ UNCHANGED <<apk, max_file_size>>
    /\ UNCHANGED calls

\* tracker_analysis is imported: TRACKER_PATTERNS = load_tracker_list()
InitTrackers ==
    /\ pc = "idle"
    /\ ZS_CLASSIFIER = None
    /\ TRACKER_PATTERNS \in {load_tracker_list(f) : f \in CsvFiles}
    /\ zs_backend = NoBackend
    /\ history = << >>
    /\ calls = NoCalls
    /\ NoCall

NextTrackers ==
    \/ pc = "idle" /\ \E doms \in DomainSets : ClassifyDomains(doms)
    \/ Return

SpecTrackers == InitTrackers /\ [][NextTrackers]_vars

\* what zs_backend does during a call of compute_privacy_risk with pt
EnvOf(pt) ==
    IF IsInsufficient(pt) THEN NoEnv
    ELSE [init |-> zs_backend.init, call |-> zs_backend.answers[pt[1]]]

\* a call of compute_privacy_risk whose arguments, handle on entry and
\* returned value are kept in history
RecordedCall(perms, grouped, pt, env) ==
    /\ Len(history) < MaxCalls
    /\ ReturnRisk(perms, pt, env, privacy_risk(grouped, pt, ZS_CLASSIFIER, env))
    /\ history' = Append(history, [permissions |-> permissions',
                                   policy_text |-> policy_text',
                                   handle |-> ZS_CLASSIFIER,
                                   result |-> result'])

\* nlp_risk is imported into a process with some backend installed
InitCalls ==
    /\ pc = "idle"
    /\ ZS_CLASSIFIER = None
    /\ TRACKER_PATTERNS = << >>
    /\ zs_backend \in Backends
    /\ history = << >>
    /\ calls = NoCalls
    /\ NoCall

NextCalls ==
    \/ pc = "idle" /\ \E perms \in CallPerms :
           \E grouped \in {group_permissions(perms)} : \E pt \in CallTexts :
               RecordedCall(perms, grouped, pt, EnvOf(pt))
    \/ Return

SpecCalls == InitCalls /\ [][NextCalls]_vars

ExtractDomainsFromApk(archive, max) ==
    /\ pc = "idle"
    /\ pc' = "done"
    /\ op' = "extract_domains_from_apk"
    /\ apk' = archive
    /\ max_file_size' = max
    /\ result' = extract_domains_from_apk(archive, max)
    /\ UNCHANGED <<ZS_CLASSIFIER, TRACKER_PATTERNS, permissions, policy_text,
                   domains, risk_points, strategy, backend, zs_backend, history>>
    /\ UNCHANGED calls

NextExtract ==
    \/ pc = "idle" /\ \E archive \in Archives : \E max \in MaxFileSizes :
           ExtractDomainsFromApk(archive, max)
    \/ Return

SpecExtract == InitIdle /\ [][NextExtract]_vars

---------------------------------------------------------------------------
(* Concurrent calls: the steps of extract_policy_claims and _init_zero_shot
   at which a thread reads or writes _ZS_CLASSIFIER.  calls[t].pc is
     "init"   before line 25      "build"  inside pipeline(...), line 29
     "check"  before line 47      "bind"   before line 51
     "call"   before line 64      "done"   returned      "raised"  raised *)

\* what no thread step touches: the variables of the sequential calls
sequential ==
    <<pc, op, TRACKER_PATTERNS, permissions, policy_text, domains, apk,
      max_file_size, result, risk_points, strategy, backend, zs_backend, history>>

\* classifier(...) with the local bound at line 51: calling None raises
\* TypeError
Invoke(classifier, answer) ==
    IF classifier = None
    THEN [kind |-> "not_callable", labels |-> << >>, scores |-> << >>]
    ELSE answer

\* a mutant of OnCall: the TypeError of calling None is not caught
OnCall_TypeErrorEscapes(text, outcome) ==
    IF outcome.kind = "not_callable"
    THEN [pc |-> "raised", claims |-> << >>, strategy |-> None]
    ELSE IF outcome.kind \in {"raise", "malformed"}
    THEN [pc |-> "done", claims |-> keyword_extract_claims(text), strategy |-> "keyword"]
    ELSE [pc |-> "done", claims |-> zero_shot_claims(outcome), strategy |-> "zero_shot"]

\* lines 50-83: `except Exception` catches whatever the try block raises
OnCall(text, outcome) ==
    IF outcome.kind \in {"raise", "malformed", "not_callable"}
    THEN [pc |-> "done", claims |-> keyword_extract_claims(text), strategy |-> "keyword"]
    ELSE [pc |-> "done", claims |-> zero_shot_claims(outcome), strategy |-> "zero_shot"]

\* what the call c returns once extract_policy_claims has returned ex: the
\* claims themselves, or the assessment built on the call's own locals
Returns(c, ex) ==
    IF c.op = "extract_policy_claims" THEN ex.claims
    ELSE Assess([claims |-> ex.claims, handle |-> None, strategy |-> ex.strategy],
                group_permissions(c.permissions)).result

\* the call c leaves extract_policy_claims with ex = [pc, claims, strategy]
Leave(c, ex) ==
    IF ex.pc = "raised" THEN [c EXCEPT !.pc = "raised"]
    ELSE [c EXCEPT !.pc = "done", !.strategy = ex.strategy, !.result = Returns(c, ex)]

KeywordExit(text) ==
    [pc |-> "done", claims |-> keyword_extract_claims(text), strategy |-> "keyword"]

\* the call as it stands after its entry: lines 125-132 and 42-43 return at
\* once, otherwise the call goes on to _init_zero_shot()
Entered(c) ==
    IF c.op = "compute_privacy_risk" /\ IsInsufficient(c.policy_text)
    THEN [c EXCEPT !.pc = "done",
                   !.result = privacy_risk(group_permissions(c.permissions),
                                           c.policy_text, None, NoEnv).result]
    ELSE IF ~Truthy(c.policy_text) \/ Len(strip(c.policy_text[1])) < MIN_ZS_LEN
    THEN Leave(c, KeywordExit(OrEmpty(c.policy_text)))
    ELSE [c EXCEPT !.pc = "init"]

Enter(t, call) ==
    /\ calls[t].pc = "idle"
    /\ calls' = [calls EXCEPT ![t] =
                    Entered([IdleCall EXCEPT !.op = call.op,
                                             !.permissions = call.permissions,
                                             !.policy_text = call.policy_text])]
    /\ UNCHANGED <<ZS_CLASSIFIER, sequential>>

\* line 25
InitCheck(t) ==
    /\ calls[t].pc = "init"
    /\ calls' = [calls EXCEPT ![t] =
                    IF ZS_CLASSIFIER # None
                    THEN [calls[t] EXCEPT !.pc = "check", !.ok = TRUE]
                    ELSE [calls[t] EXCEPT !.pc = "build"]]
    /\ UNCHANGED <<ZS_CLASSIFIER, sequential>>

\* lines 28-30: pipeline(...) returned, the handle is stored
BuildOk(t) ==
    /\ calls[t].pc = "build"
    /\ ZS_CLASSIFIER' = "pipeline"
    /\ calls' = [calls EXCEPT ![t] = [calls[t] EXCEPT !.pc = "check", !.ok = TRUE]]
    /\ UNCHANGED sequential

\* lines 31-34: the import or pipeline(...) raised, the handle is reset
BuildFail(t) ==
    /\ calls[t].pc = "build"
    /\ ZS_CLASSIFIER' = None
    /\ calls' = [calls EXCEPT ![t] = [calls[t] EXCEPT !.pc = "check", !.ok = FALSE]]
    /\ UNCHANGED sequential

\* lines 47-48
Check(t) ==
    /\ calls[t].pc = "check"
    /\ calls' = [calls EXCEPT ![t] =
                    IF ~calls[t].ok \/ ZS_CLASSIFIER = None
                    THEN Leave(calls[t], KeywordExit(calls[t].policy_text[1]))
                    ELSE [calls[t] EXCEPT !.pc = "bind"]]
    /\ UNCHANGED <<ZS_CLASSIFIER, sequential>>

\* line 51: classifier = _ZS_CLASSIFIER
Bind(t) ==
    /\ calls[t].pc = "bind"
    /\ calls' = [calls EXCEPT ![t] =
                    [calls[t] EXCEPT !.pc = "call", !.classifier = ZS_CLASSIFIER]]
    /\ UNCHANGED <<ZS_CLASSIFIER, sequential>>

\* lines 64-83, outcome = Invoke(calls[t].classifier, answer)
CallClassifier(t, outcome) ==
    /\ calls[t].pc = "call"
    /\ calls' = [calls EXCEPT ![t] =
                    Leave([calls[t] EXCEPT !.answer = outcome],
                          OnCall(calls[t].policy_text[1], outcome))]
    /\ UNCHANGED <<ZS_CLASSIFIER, sequential>>

NextThreads ==
    \/ \E t \in Threads : \E call \in ThreadCalls : Enter(t, call)
    \/ \E t \in Threads : InitCheck(t)
    \/ \E t \in Threads : BuildOk(t)
    \/ \E t \in Threads : BuildFail(t)
    \/ \E t \in Threads : Check(t)
    \/ \E t \in Threads : Bind(t)
    \/ \E t \in Threads : \E answer \in ThreadAnswers :
           \E outcome \in {Invoke(calls[t].classifier, answer)} :
               CallClassifier(t, outcome)

SpecThreads == InitIdle /\ [][NextThreads]_vars

NextGroup ==
    \/ pc = "idle" /\ \E perms \in GroupPermLists : GroupPermissions(perms)
    \/ Return

SpecGroup == InitIdle /\ [][NextGroup]_vars

NextClaims ==
    \/ pc = "idle" /\ \E pt \in ClaimTexts : \E env \in EnvsFor(pt, ZS_CLASSIFIER, MIN_ZS_LEN) :
           ExtractPolicyClaims(pt, env)
    \/ Return

SpecClaims == InitIdle /\ [][NextClaims]_vars

NextRisk ==
    \/ pc = "idle" /\ \E perms \in RiskPermLists :
           \E grouped \in {group_permissions(perms)} : \E pt \in RiskTexts :
               \E env \in EnvsFor(pt, ZS_CLASSIFIER, MIN_POLICY_LEN) :
                   ComputePrivacyRisk(perms, grouped, pt, env)
    \/ Return

SpecRisk == InitIdle /\ [][NextRisk]_vars

---------------------------------------------------------------------------
(* Claims about compute_privacy_risk, checked under SpecRisk *)

Returned(f) == pc = "done" /\ op = f

\* the trimmed length of the policy, 0 for None
TrimmedLen(pt) == IF pt = NoText THEN 0 ELSE Len(strip(pt[1]))

Min(a, b) == IF a <= b THEN a ELSE b

\* the penalty sum P of C1, from a used_groups mapping and a claim set
BreadthPenalty(ug) ==
    LET n == Cardinality({g \in Groups : ug[g]})
    IN  IF n >= 5 THEN 20 ELSE IF n >= 3 THEN 10 ELSE IF n >= 1 THEN 5 ELSE 0

PairWeight(g) ==
    IF g \in {"location", "contacts", "camera", "microphone"} THEN 10 ELSE 7

PairClaim(g) ==
    IF g = "storage_media" THEN "mentions_storage" ELSE "mentions_" \o g

RECURSIVE SumOver(_, _, _)
SumOver(S, ug, cl) ==
    IF S = {} THEN 0
    ELSE LET g == CHOOSE x \in S : TRUE
         IN  (IF ug[g] /\ ~cl[PairClaim(g)] THEN PairWeight(g) ELSE 0)
             + SumOver(S \ {g}, ug, cl)

PenaltySum(ug, cl) ==
    BreadthPenalty(ug) + SumOver(Groups, ug, cl)
    + (IF ug["ads_tracking"] THEN 5 ELSE 0)
    + (IF ~cl["mentions_third_parties"] THEN 8 ELSE 0)
    + (IF ~cl["mentions_security"] THEN 5 ELSE 0)

\* the groups a permission list uses, as the spec words it: a group is used iff
\* some permission ends with one of its (dot-free) suffixes
GroupsOf(perms) ==
    [g \in Groups |->
        \E i \in DOMAIN perms : \E k \in DOMAIN SENSITIVE_PERMISSION_GROUPS[g] :
            /\ endswith(perms[i], SENSITIVE_PERMISSION_GROUPS[g][k])
            /\ ~contains(SENSITIVE_PERMISSION_GROUPS[g][k], ".")]

OnlyCamera(ug) == \A g \in Groups : ug[g] <=> g = "camera"
AllFalse(cl) == \A c \in ClaimKeys : ~cl[c]

\* C1: for a policy of trimmed length >= 50 the score is 100 - min(90, P), P the
\* sum of the breadth penalty, the weights of the used-but-unmentioned pairs, 5
\* when ads_tracking is used, 8 and 5 for the third-parties and security claims
\* being false; only camera used with every claim false gives 72 and MEDIUM.
C1_ScoreFormula ==
    (Returned("compute_privacy_risk") /\ TrimmedLen(policy_text) >= 50) =>
        /\ result.score = 100 - Min(90, PenaltySum(result.used_groups, result.claims))
        /\ result.used_groups = GroupsOf(permissions)
        /\ (OnlyCamera(result.used_groups) /\ AllFalse(result.claims)) =>
               (result.score = 72 /\ result.level = "MEDIUM")

\* C1 witness: the camera example of the spec, scored by the keyword strategy
C1_Witness ==
    /\ Returned("compute_privacy_risk")
    /\ policy_text = Text(Rep("x", 60))
    /\ permissions = <<"android.permission.CAMERA">>
    /\ strategy = "keyword"
    /\ result.score = 72

\* C2: an empty, None or shorter-than-50 (trimmed) policy returns exactly score
\* 25, HIGH, the single insufficiency reason, no claims and the grouped
\* permissions, without running claim extraction; exactly 50 is not short.
C2_ShortPolicy ==
    Returned("compute_privacy_risk") =>
        /\ (policy_text = NoText \/ policy_text = Text("") \/ TrimmedLen(policy_text) < 50) =>
               /\ result = [score |-> 25, level |-> "HIGH",
                            reasons |-> <<"No or insufficient privacy policy text available for analysis.">>,
                            claims |-> << >>,
                            used_groups |-> GroupsOf(permissions)]
               /\ strategy = None
               /\ risk_points = None
        /\ TrimmedLen(policy_text) = 50 =>
               /\ strategy \in {"keyword", "zero_shot"}
               /\ DOMAIN result.claims = ClaimKeys
               /\ result.reasons # <<InsufficientReason>>

\* C2 witness: a policy longer than 50 characters of which 49 remain once
\* trimmed, for an app that uses permissions, after the classifier was built
C2_Witness ==
    /\ Returned("compute_privacy_risk")
    /\ policy_text # NoText
    /\ Len(policy_text[1]) > 50
    /\ TrimmedLen(policy_text) = 49
    /\ Len(permissions) = 7
    /\ ZS_CLASSIFIER = "pipeline"
    /\ result.score = 25

\* C3: risk_points never exceeds 90 and the score is an integer in 0..100
C3_Bounded ==
    Returned("compute_privacy_risk") =>
        /\ result.score \in 0..100
        /\ strategy # None => risk_points \in 0..90

\* C3 witness: every group used and nothing mentioned: 99 points, clamped to 90
C3_Witness ==
    /\ Returned("compute_privacy_risk")
    /\ strategy = "zero_shot"
    /\ PenaltySum(result.used_groups, result.claims) = 99
    /\ risk_points = 90
    /\ result.score = 10

\* C4: the level is LOW iff score >= 75, MEDIUM iff 50 <= score < 75, HIGH iff
\* score < 50, in the short-policy result too
C4_LevelOfScore ==
    Returned("compute_privacy_risk") =>
        /\ result.level \in {"LOW", "MEDIUM", "HIGH"}
        /\ result.level = "LOW" <=> result.score >= 75
        /\ result.level = "MEDIUM" <=> (50 <= result.score /\ result.score < 75)
        /\ result.level = "HIGH" <=> result.score < 50

\* C4 witness: a score of exactly 75, on the LOW side of the threshold
C4_Witness ==
    /\ Returned("compute_privacy_risk")
    /\ result.score = 75
    /\ result.level = "LOW"

\* the reasons of C5 in their fixed order, each with the condition that applies it
ReasonTable(ug, cl) ==
    LET n == Cardinality({g \in Groups : ug[g]})
    IN  << [when |-> n >= 5,
            text |-> "App uses many categories of sensitive data (high data exposure surface)."],
           [when |-> n >= 3 /\ n < 5,
            text |-> "App uses multiple types of sensitive data."],
           [when |-> n >= 1 /\ n < 3,
            text |-> "App accesses at least one type of sensitive data."],
           [when |-> ug["location"] /\ ~cl["mentions_location"],
            text |-> "App accesses location data, but the privacy policy does not clearly mention it."],
           [when |-> ug["contacts"] /\ ~cl["mentions_contacts"],
            text |-> "App accesses contacts, but the privacy policy does not clearly mention it."],
           [when |-> ug["camera"] /\ ~cl["mentions_camera"],
            text |-> "App accesses camera, but the privacy policy does not clearly mention it."],
           [when |-> ug["microphone"] /\ ~cl["mentions_microphone"],
            text |-> "App accesses microphone/audio, but the privacy policy does not clearly mention it."],
           [when |-> ug["storage_media"] /\ ~cl["mentions_storage"],
            text |-> "App accesses media/storage, but the privacy policy does not clearly mention it."],
           [when |-> ug["phone"] /\ ~cl["mentions_phone"],
            text |-> "App accesses phone/call information, but the privacy policy does not clearly mention it."],
           [when |-> ug["ads_tracking"] /\ ~cl["mentions_ads_tracking"],
            text |-> "App accesses advertising IDs / tracking, but the privacy policy does not clearly mention it."],
           [when |-> ug["ads_tracking"],
            text |-> "App uses advertising IDs / tracking, which increases profiling and behavioral targeting risk."],
           [when |-> ~cl["mentions_third_parties"],
            text |-> "Privacy policy does not clearly describe sharing with third parties or partners."],
           [when |-> ~cl["mentions_security"],
            text |-> "Privacy policy does not mention data security or protection measures clearly."] >>

Applies(row) == row.when

TextsOf(rows) == [k \in DOMAIN rows |-> rows[k].text]

ExpectedReasons(ug, cl) == TextsOf(SelectSeq(ReasonTable(ug, cl), Applies))

\* C5: for a policy of trimmed length >= 50 the reasons are exactly the applied
\* ones in the fixed order (breadth, the seven mismatches, profiling, third
\* parties, security); the default reason appears iff none applies, and alone.
C5_ReasonOrder ==
    (Returned("compute_privacy_risk") /\ TrimmedLen(policy_text) >= 50) =>
        LET expected == ExpectedReasons(GroupsOf(permissions), result.claims)
            default == "No major mismatches or privacy concerns detected based on available information."
        IN  /\ expected # << >> => result.reasons = expected
            /\ expected = << >> => result.reasons = <<default>>
            /\ (\E k \in DOMAIN result.reasons : result.reasons[k] = default)
                   => Len(result.reasons) = 1

\* C5 witness: every reason but the lower breadth tiers, eleven in all
C5_Witness ==
    /\ Returned("compute_privacy_risk")
    /\ Len(result.reasons) = 11
    /\ result.reasons[1] = ManyReason
    /\ result.reasons[11] = SecurityReason

---------------------------------------------------------------------------
(* Claims about group_permissions, checked under SpecGroup *)

\* seg is the last dot-separated segment of perm
IsLastSegment(seg, perm) ==
    /\ ~contains(seg, ".")
    /\ perm = seg \/ endswith(perm, "." \o seg)

LastSegmentOf(perm) ==
    CHOOSE seg \in {SubSeq(perm, k, Len(perm)) : k \in 1..(Len(perm) + 1)} :
        IsLastSegment(seg, perm)

\* the groups of a set of last segments: a group is true iff some segment
\* equals or ends with one of its registered suffixes
GroupsOfSegments(segs) ==
    [g \in {"location", "contacts", "camera", "microphone", "storage_media",
            "phone", "ads_tracking"} |->
        \E seg \in segs : \E k \in DOMAIN SENSITIVE_PERMISSION_GROUPS[g] :
            \/ seg = SENSITIVE_PERMISSION_GROUPS[g][k]
            \/ endswith(seg, SENSITIVE_PERMISSION_GROUPS[g][k])]

\* the grouping as a function of the set of permissions alone
GroupsOfSet(S) == GroupsOfSegments({LastSegmentOf(perm) : perm \in S})

\* C6: group_permissions returns a mapping over exactly the 7 groups, a group
\* true iff some permission's last dot-separated segment equals or ends with
\* one of its suffixes; so the result is that of the set of the permissions,
\* whatever their order and repetitions.
C6_GroupingBySet ==
    Returned("group_permissions") =>
        result = GroupsOfSet({permissions[i] : i \in DOMAIN permissions})

\* C6 witness: a list with a repeated custom permission that only ends with a
\* registered suffix, and an unrecognised one between
C6_Witness ==
    /\ Returned("group_permissions")
    /\ permissions = <<"com.vendor.permission.MY_READ_CONTACTS",
                       "android.permission.INTERNET",
                       "com.vendor.permission.MY_READ_CONTACTS">>
    /\ result["contacts"]
    /\ \A g \in Groups \ {"contacts"} : ~result[g]

---------------------------------------------------------------------------
(* The claims checked under SpecTrackers *)

\* the domains of S in which some pattern of the list occurs
Matching(S, patterns) ==
    {d \in S : \E i \in DOMAIN patterns : contains(d, patterns[i][1])}

\* the first entry of the list, in list order, whose pattern occurs in d
FirstEntry(d, patterns) ==
    CHOOSE i \in DOMAIN patterns :
        /\ contains(d, patterns[i][1])
        /\ \A j \in DOMAIN patterns : contains(d, patterns[j][1]) => i <= j

RECURSIVE SumOfCounts(_, _)
SumOfCounts(counts, cats) ==
    IF cats = {} THEN 0
    ELSE LET c == CHOOSE x \in cats : TRUE
         IN  counts[c] + SumOfCounts(counts, cats \ {c})

\* C7: classify_domains puts a domain in tracker_domains iff some tracker
\* pattern occurs in it as a substring, maps it to the category of the first
\* such entry in list order and counts it under exactly that category; the
\* counts sum to num_trackers, num_trackers is the size of tracker_domains and
\* is at most num_domains.
C7_Classification ==
    Returned("classify_domains") =>
        /\ DOMAIN result.tracker_domains = Matching(domains, TRACKER_PATTERNS)
        /\ \A d \in DOMAIN result.tracker_domains :
              result.tracker_domains[d]
                  = TRACKER_PATTERNS[FirstEntry(d, TRACKER_PATTERNS)][2]
        /\ \A c \in DOMAIN result.category_counts :
              result.category_counts[c]
                  = Cardinality({d \in DOMAIN result.tracker_domains :
                                    result.tracker_domains[d] = c})
        /\ DOMAIN result.category_counts
              = {result.tracker_domains[d] : d \in DOMAIN result.tracker_domains}
        /\ SumOfCounts(result.category_counts, DOMAIN result.category_counts)
              = result.num_trackers
        /\ result.num_trackers = Cardinality(DOMAIN result.tracker_domains)
        /\ result.num_trackers <= result.num_domains

\* C8: in every result of classify_domains, risk_level is LOW iff
\* num_trackers = 0, MEDIUM iff 1 <= num_trackers <= 10 and HIGH iff
\* num_trackers > 10; example.com and ads.doubleclick.net with the built-in
\* fallback list give one tracker, mapped to ads, and MEDIUM.
C8_RiskLevel ==
    Returned("classify_domains") =>
        /\ result.risk_level \in {"LOW", "MEDIUM", "HIGH"}
        /\ result.risk_level = "LOW" <=> result.num_trackers = 0
        /\ result.risk_level = "MEDIUM"
              <=> (1 <= result.num_trackers /\ result.num_trackers <= 10)
        /\ result.risk_level = "HIGH" <=> result.num_trackers > 10
        /\ (/\ domains = {"example.com", "ads.doubleclick.net"}
            /\ TRACKER_PATTERNS = FallbackTrackers)
           => /\ Len(FallbackTrackers) = 5
              /\ result.num_trackers = 1
              /\ result.tracker_domains = [d \in {"ads.doubleclick.net"} |-> "ads"]
              /\ result.risk_level = "MEDIUM"

\* eleven tracker domains of one analysis, the first count rated HIGH
C8_Witness ==
    /\ Returned("classify_domains")
    /\ result.num_trackers = 11
    /\ Cardinality(DOMAIN result.tracker_domains) = 11
    /\ result.risk_level = "HIGH"

---------------------------------------------------------------------------
(* The claim checked under SpecClaims *)

\* the nine claim keys, each with the candidate label it stands for
NineClaims ==
    << <<"mentions_location", "collects location data">>,
       <<"mentions_contacts", "collects contact data">>,
       <<"mentions_camera", "collects camera or photos">>,
       <<"mentions_microphone", "collects microphone or audio">>,
       <<"mentions_storage", "collects storage or files">>,
       <<"mentions_phone", "collects phone numbers or call logs">>,
       <<"mentions_ads_tracking", "uses advertising ids or tracking">>,
       <<"mentions_third_parties", "shares data with third parties or partners">>,
       <<"mentions_security", "mentions security or encryption">> >>

\* the whole mapping comes from the keyword lists applied to the text
IsKeywordResult(claims, text) == claims = KeywordClaims(lower(text))

\* the whole mapping comes from the answer: a claim is true iff its label was
\* answered with a score of at least 0.35
IsClassifierResult(claims, answer) ==
    \A k \in DOMAIN NineClaims :
        claims[NineClaims[k][1]]
            <=> \E n \in DOMAIN answer.labels :
                    /\ n \in DOMAIN answer.scores
                    /\ answer.labels[n] = NineClaims[k][2]
                    /\ answer.scores[n] >= 35

\* the classifier was consulted and answered
Answered ==
    /\ Len(OrEmpty(policy_text)) >= 20
    /\ ZS_CLASSIFIER # None
    /\ backend.call.kind = "returned"

\* C9: extract_policy_claims always returns a mapping with exactly the nine
\* claim keys, produced by one strategy: the keyword result whenever the text
\* is empty or shorter than 20 characters, whenever the classifier cannot be
\* initialised and whenever the classifier call raises; the classifier result
\* (a claim true iff its label's score >= 0.35) only when the text has at
\* least 20 characters, initialisation succeeded and the call returned.
C9_SingleStrategy ==
    Returned("extract_policy_claims") =>
        /\ DOMAIN result = {NineClaims[k][1] : k \in DOMAIN NineClaims}
        /\ Cardinality(DOMAIN result) = 9
        /\ \A c \in DOMAIN result : result[c] \in BOOLEAN
        /\ strategy \in {"keyword", "zero_shot"}
        /\ (\/ Len(OrEmpty(policy_text)) < 20
            \/ ZS_CLASSIFIER = None
            \/ backend.call.kind = "raise")
           => /\ strategy = "keyword"
              /\ IsKeywordResult(result, OrEmpty(policy_text))
        /\ strategy = "keyword" => IsKeywordResult(result, OrEmpty(policy_text))
        /\ strategy = "zero_shot"
           => /\ Answered
              /\ IsClassifierResult(result, backend.call)
        /\ ~IsKeywordResult(result, OrEmpty(policy_text)) => Answered

\* the pipeline is built, the call raises and the keyword lists decide
C9_Witness ==
    /\ Returned("extract_policy_claims")
    /\ policy_text = Text("We may access the CAMERA and Address Book.")
    /\ ZS_CLASSIFIER = "pipeline"
    /\ backend.init
    /\ backend.call.kind = "raise"
    /\ strategy = "keyword"
    /\ result["mentions_camera"]
    /\ result["mentions_contacts"]
    /\ ~result["mentions_location"]

---------------------------------------------------------------------------
(* The claim checked under SpecCalls *)

\* two recorded calls were given the same arguments
SameInputs(a, b) ==
    a.permissions = b.permissions /\ a.policy_text = b.policy_text

SameOutputs(a, b) ==
    /\ a.result.score = b.result.score
    /\ a.result.level = b.result.level
    /\ a.result.reasons = b.result.reasons
    /\ a.result.claims = b.result.claims
    /\ a.result.used_groups = b.result.used_groups

Repeatable ==
    \A i, j \in DOMAIN history :
        SameInputs(history[i], history[j]) => SameOutputs(history[i], history[j])

\* a step leaves every recorded call as it was, and a call leaves its own
\* arguments as they were passed
Untouched ==
    /\ \A i \in DOMAIN history : i \in DOMAIN history' /\ history'[i] = history[i]
    /\ Len(history') > Len(history)
       => /\ permissions' = history'[Len(history')].permissions
          /\ policy_text' = history'[Len(history')].policy_text

\* C10: with one backend installed, any two calls of compute_privacy_risk with
\* identical permissions and policy text return identical score, level,
\* reasons, claims and used_groups, however many calls came before and
\* whatever the classifier handle was on entry; no call changes its arguments
\* or a result returned earlier.
C10_PureAcrossCalls == []Repeatable /\ [][Untouched]_vars

\* the same application analysed twice: the first call builds the handle, the
\* second finds it, both return the classifier's claims
C10_Witness ==
    /\ Returned("compute_privacy_risk")
    /\ Len(history) = 2
    /\ SameInputs(history[1], history[2])
    /\ history[1].policy_text = Text(AllKeywordsText)
    /\ history[1].handle = None
    /\ history[2].handle = "pipeline"
    /\ strategy = "zero_shot"
    /\ ~IsKeywordResult(history[2].result.claims, AllKeywordsText)
    /\ SameOutputs(history[1], history[2])

---------------------------------------------------------------------------
(* The claim checked under SpecExtract *)

\* the characters that end a URL match: whitespace, quotes, angle brackets
EndsUrl == {" ", "\t", "\n", "\r", "\f", "\"", "'", "<", ">"}

\* http:// or https:// stands at i and a URL character follows it
UrlBegins(data, i) ==
    \E k \in {7, 8} :
        /\ i + k <= Len(data)
        /\ SubSeq(data, i, i + k - 1) = (IF k = 7 THEN "http://" ELSE "https://")
        /\ Char(data, i + k) \notin EndsUrl

\* i..j holds URL characters only
UrlRun(data, i, j) == \A m \in i..j : Char(data, m) \notin EndsUrl

\* the URL matches of data: a match begins where a URL begins outside an
\* earlier match and runs to the last URL character before the next end
UrlMatches(data) ==
    {SubSeq(data, a, CHOOSE b \in a..Len(data) :
                        /\ UrlRun(data, a, b)
                        /\ (b = Len(data) \/ Char(data, b + 1) \in EndsUrl)) :
        a \in {i \in 1..Len(data) :
                  /\ UrlBegins(data, i)
                  /\ ~\E c \in 1..(i - 1) : UrlBegins(data, c) /\ UrlRun(data, c, i)}}

BinaryExtensions ==
    {".so", ".png", ".jpg", ".jpeg", ".webp", ".gif", ".mp3", ".mp4", ".ogg",
     ".wav", ".ttf", ".otf", ".ico", ".pdf"}

\* the entry is one whose bytes are searched
IsSearched(info, ceiling) ==
    /\ ~(Len(info.filename) > 0 /\ Char(info.filename, Len(info.filename)) = "/")
    /\ ~\E ext \in BinaryExtensions : endswith(lower(info.filename), ext)
    /\ info.file_size <= ceiling
    /\ info.readable

\* what one entry contributes on its own
Contribution(info, ceiling) ==
    IF IsSearched(info, ceiling)
    THEN {clean_domain(decode(m)) : m \in UrlMatches(info.data)} \ {""}
    ELSE {}

\* C11: extract_domains_from_apk never propagates an error: an archive that
\* cannot be opened yields the empty set; otherwise the result is exactly the
\* set of non-empty normalised domains of the URL matches in the entries that
\* are not directories, do not end in a skipped extension, are not larger
\* than max_file_size and can be read.  An unreadable entry or a malformed
\* URL contributes nothing and takes nothing away from the other entries.
C11_BestEffort ==
    Returned("extract_domains_from_apk") =>
        /\ ~apk.opens => result = {}
        /\ apk.opens
           => \A part \in {[k \in DOMAIN apk.entries |->
                                Contribution(apk.entries[k], max_file_size)]} :
                 /\ result = UNION {part[k] : k \in DOMAIN apk.entries}
                 /\ "" \notin result
                 /\ \A k \in DOMAIN apk.entries :
                       /\ ~apk.entries[k].readable
                          => result = UNION {part[n] : n \in DOMAIN apk.entries \ {k}}
                       /\ part[k] \subseteq result

\* an entry that cannot be read, then an entry of exactly max_file_size with
\* a good and a malformed URL
C11_Witness ==
    /\ Returned("extract_domains_from_apk")
    /\ apk.opens
    /\ Len(apk.entries) = 2
    /\ ~apk.entries[1].readable
    /\ apk.entries[2].filename = "assets/config.json"
    /\ apk.entries[2].file_size = max_file_size
    /\ Cardinality(UrlMatches(apk.entries[2].data)) = 2
    /\ result = {"example.com"}

---------------------------------------------------------------------------
(* The claim checked under SpecThreads *)

\* the claim set a finished call holds
ClaimsOf(c) == IF c.op = "extract_policy_claims" THEN c.result ELSE c.result.claims

\* the claims of a finished call that went through claim extraction: nine
\* keys, from the keyword lists alone or from the classifier's answer alone
OneStrategy(c, claims) ==
    /\ DOMAIN claims = {NineClaims[k][1] : k \in DOMAIN NineClaims}
    /\ \A k \in DOMAIN claims : claims[k] \in BOOLEAN
    /\ c.strategy \in {"keyword", "zero_shot"}
    /\ c.strategy = "keyword" => IsKeywordResult(claims, OrEmpty(c.policy_text))
    /\ c.strategy = "zero_shot"
       => /\ c.answer.kind = "returned"
          /\ c.classifier # None
          /\ IsClassifierResult(claims, c.answer)

\* reasons and used_groups of a finished compute_privacy_risk call follow
\* from the call's own permissions and claims
OwnAccumulators(c) ==
    /\ c.result.used_groups = GroupsOf(c.permissions)
    /\ c.strategy = None
       => c.result.reasons
              = <<"No or insufficient privacy policy text available for analysis.">>
    /\ c.strategy # None
       => \A expected \in {ExpectedReasons(GroupsOf(c.permissions), c.result.claims)} :
             c.result.reasons
                 = IF expected = << >>
                   THEN <<"No major mismatches or privacy concerns detected based on available information.">>
                   ELSE expected

\* C12: when compute_privacy_risk / extract_policy_claims calls run
\* concurrently and share _ZS_CLASSIFIER, then under every interleaving of
\* their steps no call raises, each call that extracts claims returns a
\* complete nine-key claim set from exactly one strategy, and each call's
\* reasons and used_groups are its own.
C12_ConcurrentCalls ==
    \A t \in Threads :
        /\ calls[t].pc # "raised"
        /\ calls[t].pc = "done"
           => /\ calls[t].strategy # None
                 => OneStrategy(calls[t], ClaimsOf(calls[t]))
              /\ calls[t].op = "compute_privacy_risk" => OwnAccumulators(calls[t])

\* thread 1 passed the check of line 47 with the handle built, thread 2's
\* failed initialisation then reset it, and thread 1 called None
C12_Witness ==
    /\ calls[1].pc = "done"
    /\ calls[1].op = "compute_privacy_risk"
    /\ calls[1].ok
    /\ calls[1].classifier = None
    /\ calls[1].answer.kind = "not_callable"
    /\ calls[1].strategy = "keyword"
    /\ calls[1].result.score = 72
    /\ calls[2].pc = "done"
    /\ ~calls[2].ok
    /\ ZS_CLASSIFIER = None

===========================================================================
